---- MODULE Spec2Model ----
(***************************************************************************)
(* A model of yarn_api_client: the request executor of base.py            *)
(* (BaseYarnAPI.request, http_conn, logger, construct_parameters,         *)
(* Response) and the facade of resource_manager.py (ResourceManager).     *)
(*                                                                         *)
(* Python values are modelled as strings; None and an attribute that was  *)
(* never assigned (reading it raises AttributeError) are the two          *)
(* sentinels NONE and MISSING.  A dict is a sequence of <<key, value>>    *)
(* pairs with distinct keys, in insertion order.                          *)
(***************************************************************************)
EXTENDS Integers, Sequences, FiniteSets, TLC

VARIABLES self, ncalls, conns, wire, last

vars == <<self, ncalls, conns, wire, last>>

(***************************************************************************)
(* Bounds of the model.                                                    *)
(***************************************************************************)
MaxCalls == 2
MaxPairs == 2

NONE == "<None>"
MISSING == "<unset>"

(***************************************************************************)
(* http.client status constants imported by base.py.                       *)
(***************************************************************************)
OK == 200
ACCEPTED == 202

Truthy(v) == v # NONE /\ v # ""

(***************************************************************************)
(* Collaborators that are not part of the two source files.                *)
(***************************************************************************)
YarnApplicationState ==
    {"NEW", "NEW_SAVING", "SUBMITTED", "ACCEPTED", "RUNNING", "FINISHED",
     "FAILED", "KILLED"}

FinalApplicationStatus == {"UNDEFINED", "SUCCEEDED", "FAILED", "KILLED"}

Endpoints ==
    {"https://rm.example.com:8088/ws/v1/cluster", "http://rm.example.com",
     "/ws/v1/cluster"}

Uri(serviceEndpoint) ==
    CASE serviceEndpoint = "https://rm.example.com:8088/ws/v1/cluster" ->
           [scheme |-> "https", hostname |-> "rm.example.com",
            port |-> "8088", path |-> "/ws/v1/cluster"]
      [] serviceEndpoint = "http://rm.example.com" ->
           [scheme |-> "http", hostname |-> "rm.example.com",
            port |-> NONE, path |-> ""]
      [] OTHER ->
           [scheme |-> "", hostname |-> NONE, port |-> NONE,
            path |-> serviceEndpoint]

get_resource_manager_host_port == {<<"rm.example.com", "8088">>}

(***************************************************************************)
(* Standard-library conversions, on the values the model uses.             *)
(***************************************************************************)
QuotePlus(v) ==
    CASE v = "a b" -> "a+b"
      [] v = "RUNNING,BOGUS" -> "RUNNING%2CBOGUS"
      [] v = "RUNNING,KILLED" -> "RUNNING%2CKILLED"
      [] OTHER -> v

b64encode(cred) ==
    CASE cred = "alice:s3cret" -> "YWxpY2U6czNjcmV0"
      [] cred = "bob:pw" -> "Ym9iOnB3"

RECURSIVE Join(_, _)
Join(sep, items) ==
    IF Len(items) = 0 THEN ""
    ELSE IF Len(items) = 1 THEN items[1]
    ELSE items[1] \o sep \o Join(sep, Tail(items))

RECURSIVE urlencode(_)
urlencode(query) ==
    IF Len(query) = 0 THEN ""
    ELSE LET item == QuotePlus(query[1][1]) \o "=" \o QuotePlus(query[1][2])
         IN  IF Len(query) = 1 THEN item
             ELSE item \o "&" \o urlencode(Tail(query))

JsonBodies == {"[1, 2]", "null"}

JsonValid(text) == text \in JsonBodies

JsonValue(text) ==
    CASE text = "[1, 2]" -> "list(1, 2)"
      [] text = "null" -> "None"

(***************************************************************************)
(* dict(...) over a sequence of pairs: a later pair with the same key      *)
(* replaces the value and keeps the key's position.                        *)
(***************************************************************************)
DictKeys(d) == {d[i][1] : i \in 1..Len(d)}

DictSet(d, k, v) ==
    IF k \in DictKeys(d)
    THEN [i \in 1..Len(d) |-> IF d[i][1] = k THEN <<k, v>> ELSE d[i]]
    ELSE Append(d, <<k, v>>)

RECURSIVE DictFrom(_, _)
DictFrom(d, pairs) ==
    IF Len(pairs) = 0 THEN d
    ELSE DictFrom(DictSet(d, pairs[1][1], pairs[1][2]), Tail(pairs))

(***************************************************************************)
(* base.py                                                                 *)
(***************************************************************************)
NoHeaders == [none |-> TRUE, map |-> <<>>]

Headers(map) == [none |-> FALSE, map |-> map]

NoData == [kind |-> "none", value |-> ""]

\* A mutation of StatusAccepted: every 2xx status is taken as success.
StatusAcceptedAny2xx(status) == status >= 200 /\ status < 300

\* response.status == OK or response.status == ACCEPTED
StatusAccepted(status) == status = OK \/ status = ACCEPTED

\* A mutation of Response: a body that does not decode leaves data None.
ResponseDropsRaw(http_response) ==
    IF ~http_response.readok
    THEN [raised |-> TRUE, data |-> NoData]
    ELSE IF JsonValid(http_response.body)
    THEN [raised |-> FALSE,
          data |-> [kind |-> "json", value |-> JsonValue(http_response.body)]]
    ELSE [raised |-> FALSE, data |-> [kind |-> "json", value |-> "None"]]

\* Response.__init__: json.load reads the body; only ValueError is caught.
Response(http_response) ==
    IF ~http_response.readok
    THEN [raised |-> TRUE, data |-> NoData]
    ELSE IF JsonValid(http_response.body)
    THEN [raised |-> FALSE,
          data |-> [kind |-> "json", value |-> JsonValue(http_response.body)]]
    ELSE [raised |-> FALSE,
          data |-> [kind |-> "raw", value |-> http_response.handle]]

\* A mutation of construct_parameters: pairs are not filtered.
construct_parameters_keeps_null(arguments) == DictFrom(<<>>, arguments)

\* construct_parameters: dict of the pairs whose value is not None.
construct_parameters(arguments) ==
    DictFrom(<<>>, SelectSeq(arguments, LAMBDA p : p[2] # NONE))

\* The logger property: looked up once, then kept on the instance.
logger(obj) ==
    IF obj.logger = NONE THEN "logging.getLogger(" \o obj.module \o ")"
    ELSE obj.logger

\* The http_conn property.
http_conn(obj) ==
    IF obj.address = MISSING
    THEN [kind |-> "AttributeError", msg |-> "address"]
    ELSE IF obj.address = NONE
    THEN [kind |-> "ConfigurationError", msg |-> "API address is not set"]
    ELSE IF obj.port = MISSING
    THEN [kind |-> "AttributeError", msg |-> "port"]
    ELSE IF obj.port = NONE
    THEN [kind |-> "ConfigurationError", msg |-> "API port is not set"]
    ELSE [kind |-> "HTTPSConnection", msg |-> ""]

\* The headers handed to the connection (lines 42-61).
WithAuthorization(obj, headers) ==
    IF Truthy(obj.username) /\ Truthy(obj.password)
    THEN LET cred == obj.username \o ":" \o obj.password
             userAndPass == b64encode(cred)
             auth == [n \in {"Authorization"} |-> "Basic " \o userAndPass]
         IN  IF ~headers.none /\ DOMAIN headers.map # {}
             THEN Headers([n \in DOMAIN headers.map \cup {"Authorization"} |->
                             IF n = "Authorization" THEN auth[n]
                             ELSE headers.map[n]])
             ELSE Headers(auth)
    ELSE headers

\* The attribute whose read fails first in lines 40-42, or NONE.
FirstMissing(obj) ==
    IF obj.address = MISSING THEN "address"
    ELSE IF obj.port = MISSING THEN "port"
    ELSE IF obj.username = MISSING THEN "username"
    ELSE IF Truthy(obj.username) /\ obj.password = MISSING THEN "password"
    ELSE NONE

\* BaseYarnAPI.request.  net is what the network and the server do with
\* this call; id is the identity of the connection object the call creates.
request(obj, api_path, action, headers, body, query_args, net, id) ==
    LET params == urlencode(query_args)
        path == IF params # "" THEN api_path \o "?" \o params ELSE api_path
        base == [outcome |-> [kind |-> "AttributeError", msg |-> ""],
                 logger |-> logger(obj), path |-> path,
                 headers |-> NoHeaders, conn |-> <<>>, sent |-> <<>>,
                 status |-> 0, read |-> "none", body |-> "",
                 data |-> NoData]
        hdrs == WithAuthorization(obj, headers)
        opened == http_conn(obj)
        conn == [id |-> id, address |-> obj.address, port |-> obj.port,
                 timeout |-> obj.timeout, sock |-> "unconnected"]
        req == [conn |-> id, method |-> action, url |-> path,
                body |-> body, headers |-> hdrs.map]
        live == [conn EXCEPT !.sock = IF net.released THEN "closed"
                                      ELSE "open"]
        http_response == [handle |-> "HTTPResponse@" \o ToString(id),
                          body |-> net.body, readok |-> net.readok]
        wrapped == Response(http_response)
    IN  IF FirstMissing(obj) # NONE
        THEN [base EXCEPT !.outcome.msg = FirstMissing(obj)]
        ELSE IF opened.kind # "HTTPSConnection"
        THEN [base EXCEPT !.outcome = opened, !.headers = hdrs]
        ELSE IF hdrs.none
        THEN [base EXCEPT !.outcome = [kind |-> "TypeError",
                                       msg |-> "headers is None"],
                          !.headers = hdrs, !.conn = <<conn>>]
        ELSE IF net.connect # "ok"
        THEN [base EXCEPT !.outcome = [kind |-> "TransportError",
                                       msg |-> "connect"],
                          !.headers = hdrs, !.conn = <<conn>>]
        ELSE IF net.reply # "status"
        THEN [base EXCEPT !.outcome = [kind |-> "TransportError",
                                       msg |-> "getresponse"],
                          !.headers = hdrs, !.conn = <<live>>,
                          !.sent = <<req>>]
        ELSE IF ~StatusAccepted(net.status)
        THEN [base EXCEPT !.outcome =
                            [kind |-> "APIError",
                             msg |-> "Response finished with status: "
                                       \o ToString(net.status)],
                          !.headers = hdrs, !.conn = <<live>>,
                          !.sent = <<req>>, !.status = net.status]
        ELSE IF wrapped.raised
        THEN [base EXCEPT !.outcome = [kind |-> "TransportError",
                                       msg |-> "read"],
                          !.headers = hdrs, !.conn = <<live>>,
                          !.sent = <<req>>, !.status = net.status,
                          !.read = "failed"]
        ELSE [base EXCEPT !.outcome = [kind |-> "Response", msg |-> ""],
                          !.headers = hdrs, !.conn = <<live>>,
                          !.sent = <<req>>, !.status = net.status,
                          !.read = "ok", !.body = net.body,
                          !.data = wrapped.data]

(***************************************************************************)
(* resource_manager.py                                                     *)
(***************************************************************************)
DefaultTimeout == 30

Or(value, default) == IF Truthy(value) THEN value ELSE default

\* ResourceManager.__init__; discovered is what the configuration lookup
\* returns when no endpoint is given.
ResourceManager(serviceEndpoint, username, password, timeout, discovered) ==
    LET blank == [class |-> "ResourceManager",
                  module |-> "yarn_api_client.resource_manager",
                  timeout |-> timeout, hostname |-> MISSING,
                  port |-> MISSING, apiEndpoint |-> MISSING,
                  scheme |-> MISSING, username |-> MISSING,
                  password |-> MISSING, address |-> MISSING,
                  logger |-> NONE]
        serviceUri == Uri(serviceEndpoint)
    IN  IF serviceEndpoint = NONE
        THEN [blank EXCEPT !.logger = logger(blank),
                           !.hostname = discovered[1],
                           !.port = discovered[2],
                           !.apiEndpoint = "/ws/v1/cluster"]
        ELSE [blank EXCEPT !.scheme = Or(serviceUri.scheme, "https"),
                           !.hostname = serviceUri.hostname,
                           !.port = Or(serviceUri.port, "8088"),
                           !.apiEndpoint = Or(serviceUri.path,
                                              "/ws/v1/cluster"),
                           !.username = username,
                           !.password = password]

NoList == [none |-> TRUE, items |-> <<>>]

List(items) == [none |-> FALSE, items |-> items]

Legal(path, loc_args) ==
    [illegal |-> NONE, path |-> path, loc_args |-> loc_args]

Illegal(msg) == [illegal |-> msg, path |-> "", loc_args |-> <<>>]

cluster_information(obj) == Legal(obj.apiEndpoint \o "/info", <<>>)

cluster_metrics(obj) == Legal(obj.apiEndpoint \o "/metrics", <<>>)

cluster_scheduler(obj) == Legal(obj.apiEndpoint \o "/scheduler", <<>>)

\* A mutation of cluster_applications: the state is not validated.
cluster_applications_unchecked(obj, a) ==
    Legal(obj.apiEndpoint \o "/apps",
          << <<"state", a.state>>, <<"finalStatus", a.final_status>>,
             <<"user", a.user>>, <<"queue", a.queue>>,
             <<"limit", a.limit>>,
             <<"startedTimeBegin", a.started_time_begin>>,
             <<"startedTimeEnd", a.started_time_end>>,
             <<"finishedTimeBegin", a.finished_time_begin>>,
             <<"finishedTimeEnd", a.finished_time_end>> >>)

cluster_applications(obj, a) ==
    IF a.state # NONE /\ a.state \notin YarnApplicationState
    THEN Illegal("Yarn Application State " \o a.state \o " is illegal")
    ELSE IF a.final_status # NONE
            /\ a.final_status \notin FinalApplicationStatus
    THEN Illegal("Final Application Status " \o a.final_status
                   \o " is illegal")
    ELSE Legal(obj.apiEndpoint \o "/apps",
               << <<"state", a.state>>, <<"finalStatus", a.final_status>>,
                  <<"user", a.user>>, <<"queue", a.queue>>,
                  <<"limit", a.limit>>,
                  <<"startedTimeBegin", a.started_time_begin>>,
                  <<"startedTimeEnd", a.started_time_end>>,
                  <<"finishedTimeBegin", a.finished_time_begin>>,
                  <<"finishedTimeEnd", a.finished_time_end>> >>)

cluster_application_statistics(obj, state_list, application_type_list) ==
    LET states == IF ~state_list.none THEN Join(",", state_list.items)
                  ELSE NONE
        applicationTypes ==
            IF ~application_type_list.none
            THEN Join(",", application_type_list.items)
            ELSE NONE
    IN  Legal(obj.apiEndpoint \o "/appstatistics",
              << <<"states", states>>,
                 <<"applicationTypes", applicationTypes>> >>)

cluster_application(obj, application_id) ==
    Legal(obj.apiEndpoint \o "/apps/" \o application_id, <<>>)

cluster_application_attempts(obj, application_id) ==
    Legal(obj.apiEndpoint \o "/apps/" \o application_id \o "/appattempts",
          <<>>)

cluster_nodes(obj, state, healthy) ==
    IF healthy # NONE /\ healthy \notin {"true", "false"}
    THEN Illegal("Valid Healthy arguments are true, false")
    ELSE Legal(obj.apiEndpoint \o "/nodes",
               << <<"state", state>>, <<"healthy", healthy>> >>)

cluster_node(obj, node_id) ==
    Legal(obj.apiEndpoint \o "/nodes/" \o node_id, <<>>)

(***************************************************************************)
(* Inputs: what callers pass and what the network answers.                 *)
(***************************************************************************)
Creds == {<<NONE, NONE>>, <<"alice", "s3cret">>, <<"bob", "">>, <<"", "pw">>}

\* An object of a class derived from BaseYarnAPI that supplies the
\* attributes request() and http_conn read.
BaseYarnAPI(address, port, username, password, timeout) ==
    [class |-> "BaseYarnAPI", module |-> "yarn_api_client.base",
     timeout |-> timeout, hostname |-> MISSING, port |-> port,
     apiEndpoint |-> MISSING, scheme |-> MISSING, username |-> username,
     password |-> password, address |-> address, logger |-> NONE]

Clients ==
    {ResourceManager(e, c[1], c[2], DefaultTimeout, d) :
        e \in Endpoints \cup {NONE}, c \in Creds,
        d \in get_resource_manager_host_port}
    \cup
    {BaseYarnAPI(a, p, c[1], c[2], DefaultTimeout) :
        a \in {"rm.example.com", NONE}, p \in {"8088", NONE}, c \in Creds}

Bodies == JsonBodies \cup {"", "<html>"}

\* What a server sends: a status and a body.
Answers ==
    {<<st, b>> : st \in {200, 202}, b \in Bodies}
    \cup {<<204, "">>, <<500, "<html>">>}

\* What the network does with one call: whether the connection is made,
\* whether a status line arrives, the status and body, whether the body can
\* be read, and whether the socket has been released by the time the call
\* ends.  request() itself never closes the connection or the response, so
\* the release is left to the library and the runtime and can go either way.
NoNet == [connect |-> "none", reply |-> "none", status |-> 0, body |-> "",
          readok |-> FALSE, released |-> FALSE]

Nets ==
    {[NoNet EXCEPT !.connect = "refused"]}
    \cup {[NoNet EXCEPT !.connect = "ok", !.reply = "timeout",
                        !.released = r] : r \in BOOLEAN}
    \cup {[connect |-> "ok", reply |-> "status", status |-> a[1],
           body |-> a[2], readok |-> TRUE, released |-> r] :
            a \in Answers, r \in BOOLEAN}
    \cup {[connect |-> "ok", reply |-> "status", status |-> st, body |-> "",
           readok |-> FALSE, released |-> r] :
            st \in {200, 500}, r \in BOOLEAN}

\* The network is consulted only by a call that gets as far as line 65
\* with headers the connection accepts.
NetsFor(obj, headers) ==
    IF FirstMissing(obj) = NONE /\ http_conn(obj).kind = "HTTPSConnection"
       /\ ~WithAuthorization(obj, headers).none
    THEN Nets ELSE {NoNet}

CallerHeaders ==
    {NoHeaders, Headers(<<>>),
     Headers([n \in {"Accept"} |-> "application/json"]),
     Headers([n \in {"Accept", "Authorization"} |->
                IF n = "Accept" THEN "application/json" ELSE "Bearer t"])}

\* The method and query arguments of a direct request() call.
Requests ==
    {<<"GET", <<>> >>, <<"GET", << <<"user", "a b">>, <<"limit", "10">> >> >>,
     <<"PUT", <<>> >>}

EnumStates == {NONE, "RUNNING", "BOGUS"}

FinalStatuses == {NONE, "SUCCEEDED", "BOGUS"}

FilterNames ==
    {"user", "queue", "limit", "started_time_begin", "started_time_end",
     "finished_time_begin", "finished_time_end"}

FilterValue(name) ==
    CASE name = "user" -> "a b"
      [] name = "queue" -> "default"
      [] name = "limit" -> "10"
      [] OTHER -> "0"

FilterSets == {{}} \cup {{n} : n \in FilterNames} \cup {FilterNames}

Given(F, name) == IF name \in F THEN FilterValue(name) ELSE NONE

AppArgs ==
    {[state |-> s, final_status |-> f, user |-> Given(F, "user"),
      queue |-> Given(F, "queue"), limit |-> Given(F, "limit"),
      started_time_begin |-> Given(F, "started_time_begin"),
      started_time_end |-> Given(F, "started_time_end"),
      finished_time_begin |-> Given(F, "finished_time_begin"),
      finished_time_end |-> Given(F, "finished_time_end")] :
        s \in EnumStates, f \in FinalStatuses, F \in FilterSets}

StateLists ==
    {NoList, List(<<>>), List(<<"RUNNING">>), List(<<"RUNNING", "KILLED">>),
     List(<<"RUNNING", "BOGUS">>)}

TypeLists == {NoList, List(<<"MAPREDUCE">>)}

Healthy == {NONE, "true", "false", "maybe"}

Pairs == {<<"a", NONE>>, <<"a", "1">>, <<"a", "2">>, <<"b", "1">>}

RECURSIVE SeqsUpTo(_, _)
SeqsUpTo(S, n) ==
    IF n = 0 THEN {<<>>}
    ELSE LET shorter == SeqsUpTo(S, n - 1)
         IN  shorter \cup {Append(q, x) : q \in shorter, x \in S}

PairSeqs == SeqsUpTo(Pairs, MaxPairs)

(***************************************************************************)
(* State.  self is the client object; conns are the connection objects     *)
(* created so far; wire the HTTP requests sent; last the latest call.      *)
(***************************************************************************)
NoArgs == [state |-> NONE, final_status |-> NONE, healthy |-> NONE,
           state_list |-> NoList]

NoCall ==
    [op |-> "none", args |-> NoArgs, arguments |-> <<>>, params |-> <<>>,
     requested |-> FALSE, headers_in |-> NoHeaders,
     outcome |-> [kind |-> "none", msg |-> ""], path |-> "",
     headers |-> NoHeaders, status |-> 0, read |-> "none", body |-> "",
     data |-> NoData, conn |-> <<>>, sent |-> <<>>]

Init ==
    /\ self \in Clients
    /\ ncalls = 0
    /\ conns = <<>>
    /\ wire = <<>>
    /\ last = NoCall

\* The result of a call that ends before request() is entered.
NoRequest(obj, kind, msg) ==
    [outcome |-> [kind |-> kind, msg |-> msg], logger |-> obj.logger,
     path |-> "", headers |-> NoHeaders, conn |-> <<>>, sent |-> <<>>,
     status |-> 0, read |-> "none", body |-> "", data |-> NoData]

\* A mutation of Finish: the credentials are cleared once a call has used
\* them.
FinishClearsPassword(op, args, arguments, params, requested, headers_in, res) ==
    /\ self' = [self EXCEPT !.logger = res.logger,
                            !.password = IF requested THEN NONE ELSE @]
    /\ ncalls' = ncalls + 1
    /\ conns' = conns \o res.conn
    /\ wire' = wire \o [i \in 1..Len(res.sent) |-> res.sent[i].conn]
    /\ last' = [op |-> op, args |-> args, arguments |-> arguments,
                params |-> params, requested |-> requested,
                headers_in |-> headers_in, outcome |-> res.outcome,
                path |-> res.path, headers |-> res.headers,
                status |-> res.status, read |-> res.read,
                body |-> res.body,
                data |-> res.data, conn |-> res.conn, sent |-> res.sent]

\* The effect of a finished call on the state: the logger the call looked
\* up stays on the instance, and the call's connection and request are
\* recorded.
Finish(op, args, arguments, params, requested, headers_in, res) ==
    /\ self' = [self EXCEPT !.logger = res.logger]
    /\ ncalls' = ncalls + 1
    /\ conns' = conns \o res.conn
    /\ wire' = wire \o [i \in 1..Len(res.sent) |-> res.sent[i].conn]
    /\ last' = [op |-> op, args |-> args, arguments |-> arguments,
                params |-> params, requested |-> requested,
                headers_in |-> headers_in, outcome |-> res.outcome,
                path |-> res.path, headers |-> res.headers,
                status |-> res.status, read |-> res.read,
                body |-> res.body,
                data |-> res.data, conn |-> res.conn, sent |-> res.sent]

\* A facade method from its validation to the end of request().
Perform(op, args, plan) ==
    IF plan.illegal # NONE
    THEN Finish(op, args, <<>>, <<>>, FALSE, NoHeaders,
                NoRequest(self, "IllegalArgumentError", plan.illegal))
    ELSE LET params == construct_parameters(plan.loc_args)
         IN  \E net \in NetsFor(self, NoHeaders) :
                Finish(op, args, plan.loc_args, params, TRUE, NoHeaders,
                       request(self, plan.path, "GET", NoHeaders, "", params,
                               net, Len(conns) + 1))

CanCall == ncalls < MaxCalls

IsResourceManager == self.class = "ResourceManager"

ClusterInformation ==
    /\ CanCall /\ IsResourceManager
    /\ Perform("cluster_information", NoArgs, cluster_information(self))

ClusterMetrics ==
    /\ CanCall /\ IsResourceManager
    /\ Perform("cluster_metrics", NoArgs, cluster_metrics(self))

ClusterScheduler ==
    /\ CanCall /\ IsResourceManager
    /\ Perform("cluster_scheduler", NoArgs, cluster_scheduler(self))

ClusterApplications ==
    /\ CanCall /\ IsResourceManager
    /\ \E a \in AppArgs :
          Perform("cluster_applications",
                  [NoArgs EXCEPT !.state = a.state,
                                 !.final_status = a.final_status],
                  cluster_applications(self, a))

ClusterApplicationStatistics ==
    /\ CanCall /\ IsResourceManager
    /\ \E sl \in StateLists, tl \in TypeLists :
          Perform("cluster_application_statistics",
                  [NoArgs EXCEPT !.state_list = sl],
                  cluster_application_statistics(self, sl, tl))

ClusterApplication ==
    /\ CanCall /\ IsResourceManager
    /\ \E id \in {"application_1_0001"} :
          Perform("cluster_application", NoArgs,
                  cluster_application(self, id))

ClusterApplicationAttempts ==
    /\ CanCall /\ IsResourceManager
    /\ \E id \in {"application_1_0001"} :
          Perform("cluster_application_attempts", NoArgs,
                  cluster_application_attempts(self, id))

ClusterNodes ==
    /\ CanCall /\ IsResourceManager
    /\ \E st \in EnumStates, h \in Healthy :
          Perform("cluster_nodes",
                  [NoArgs EXCEPT !.state = st, !.healthy = h],
                  cluster_nodes(self, st, h))

ClusterNode ==
    /\ CanCall /\ IsResourceManager
    /\ \E id \in {"host1:45454"} :
          Perform("cluster_node", NoArgs, cluster_node(self, id))

\* request() called directly, with the caller's own headers.
Request ==
    /\ CanCall
    /\ \E api_path \in {"/ws/v1/cluster/info"}, r \in Requests,
          headers \in CallerHeaders :
          \E net \in NetsFor(self, headers) :
             Finish("request", NoArgs, <<>>, r[2], TRUE, headers,
                    request(self, api_path, r[1], headers, "", r[2],
                            net, Len(conns) + 1))

\* construct_parameters() called directly.
ConstructParameters ==
    /\ CanCall
    /\ \E arguments \in PairSeqs :
          Finish("construct_parameters", NoArgs, arguments,
                 construct_parameters(arguments), FALSE, NoHeaders,
                 NoRequest(self, "return", ""))

Next ==
    \/ ClusterInformation
    \/ ClusterMetrics
    \/ ClusterScheduler
    \/ ClusterApplications
    \/ ClusterApplicationStatistics
    \/ ClusterApplication
    \/ ClusterApplicationAttempts
    \/ ClusterNodes
    \/ ClusterNode
    \/ Request

Spec == Init /\ [][Next]_vars

\* construct_parameters on its own inputs and inside cluster_applications.
NextParams ==
    \/ ConstructParameters
    \/ ClusterApplications

SpecParams == Init /\ [][NextParams]_vars

(***************************************************************************)
(* Vocabulary of the properties.                                           *)
(***************************************************************************)
IsSet(v) == v \notin {NONE, MISSING, ""}

\* The host a client was configured with: the hostname attribute of a
\* ResourceManager, the address attribute of any other BaseYarnAPI object.
ConfiguredHost == IF IsResourceManager THEN self.hostname ELSE self.address

Configured == ConfiguredHost \notin {NONE, MISSING} /\ self.port # NONE

HasCredentials == IsSet(self.username) /\ IsSet(self.password)

Raised(kind) == last.outcome.kind = kind

ReachedNetwork ==
    last.outcome.kind \in {"Response", "APIError", "TransportError"}

Config(obj) ==
    <<obj.scheme, obj.hostname, obj.port, obj.username, obj.password,
      obj.timeout, obj.apiEndpoint, obj.address>>

LegalNodeStates ==
    {"NEW", "RUNNING", "UNHEALTHY", "DECOMMISSIONED", "LOST", "REBOOTED"}

IllegalAppState ==
    /\ last.op = "cluster_applications"
    /\ \/ last.args.state # NONE /\ last.args.state \notin YarnApplicationState
       \/ /\ last.args.final_status # NONE
          /\ last.args.final_status \notin FinalApplicationStatus

IllegalEnum ==
    \/ IllegalAppState
    \/ /\ last.op = "cluster_nodes"
       /\ \/ last.args.state # NONE /\ last.args.state \notin LegalNodeStates
          \/ /\ last.args.healthy # NONE
             /\ last.args.healthy \notin {"true", "false"}
    \/ /\ last.op = "cluster_application_statistics"
       /\ \E i \in 1..Len(last.args.state_list.items) :
             last.args.state_list.items[i] \notin YarnApplicationState

\* C1: whenever the server answers a request() call with a status other
\* than 200 or 202, the call raises an APIError whose message is "Response
\* finished with status: <that status>", and no Response is built.
C1_ApiErrorForOtherStatus ==
    (last.status # 0 /\ last.status \notin {200, 202}) =>
        /\ last.outcome =
              [kind |-> "APIError",
               msg |-> "Response finished with status: "
                         \o ToString(last.status)]
        /\ last.data = NoData

C1_Witness ==
    /\ last.status = 500
    /\ last.outcome = [kind |-> "APIError",
                       msg |-> "Response finished with status: 500"]

\* C2: a call that enters request() on a client whose hostname or port is
\* unset ends with a ConfigurationError, and sends no HTTP request.
C2_ConfigurationErrorWhenUnset ==
    (last.requested /\ ~Configured) =>
        Raised("ConfigurationError") /\ last.sent = <<>>

\* C3: cluster_applications with a state or final_status outside the legal
\* set raises IllegalArgumentError before request() is entered: no
\* connection object is created and no HTTP request is sent.
C3_ValidationBeforeNetwork ==
    IllegalAppState =>
        /\ Raised("IllegalArgumentError")
        /\ ~last.requested
        /\ last.conn = <<>>
        /\ last.sent = <<>>

C3_Witness ==
    /\ last.op = "cluster_applications"
    /\ last.args.state = "BOGUS"
    /\ last.outcome = [kind |-> "IllegalArgumentError",
                       msg |-> "Yarn Application State BOGUS is illegal"]
    /\ ~last.requested

\* C4: a call that enters request() on a configured client built by either
\* constructor path reaches the network; with both credentials set the
\* headers sent are the caller's plus Authorization: Basic
\* base64(user:password), and with either unset the headers sent are the
\* caller's own.
C4_AuthorizationHeader ==
    (last.requested /\ IsResourceManager /\ Configured) =>
        /\ ReachedNetwork
        /\ last.sent # <<>> =>
              IF HasCredentials
              THEN /\ "Authorization" \in DOMAIN last.sent[1].headers
                   /\ last.sent[1].headers["Authorization"] =
                         "Basic " \o b64encode(self.username \o ":"
                                                 \o self.password)
              ELSE last.sent[1].headers = last.headers_in.map

\* C5: a call that passes validation on a configured client creates exactly
\* one connection, to the configured host and port, and sends exactly one
\* request on it when the server is reached; requests never outnumber calls.
C5_OneConnectionPerCall ==
    /\ Len(wire) <= ncalls
    /\ (last.requested /\ Configured) =>
          /\ Len(last.conn) = 1
          /\ last.conn[1].address = ConfiguredHost
          /\ last.conn[1].port = self.port
          /\ last.conn[1].id = Len(conns)
          /\ (Raised("Response") \/ Raised("APIError")) =>
                Len(last.sent) = 1 /\ last.sent[1].conn = last.conn[1].id

\* C6 as stated: for a response with status 200 or 202 building the
\* Response never raises; a JSON body gives the parsed value, any other
\* body the raw response handle.
C6_ResponseNeverRaises ==
    last.status \in {200, 202} =>
        /\ Raised("Response")
        /\ last.data =
              IF JsonValid(last.body)
              THEN [kind |-> "json", value |-> JsonValue(last.body)]
              ELSE [kind |-> "raw",
                    value |-> "HTTPResponse@" \o ToString(last.conn[1].id)]

\* C6 as amended: for a response with status 200 or 202 whose body is read
\* to its end, building the Response does not raise: a body json.load
\* decodes gives the decoded value, a body it rejects with ValueError gives
\* the raw response handle.  A failure of the read itself is not caught: the
\* call ends with the transport error and no Response.
C6_DecodeFallback ==
    last.status \in {200, 202} =>
        /\ last.read \in {"ok", "failed"}
        /\ last.read = "ok" =>
              /\ Raised("Response")
              /\ last.data =
                    IF JsonValid(last.body)
                    THEN [kind |-> "json", value |-> JsonValue(last.body)]
                    ELSE [kind |-> "raw",
                          value |-> "HTTPResponse@"
                                      \o ToString(last.conn[1].id)]
        /\ last.read = "failed" =>
              Raised("TransportError") /\ last.data = NoData

C6_Witness ==
    /\ last.status = 202
    /\ last.read = "ok"
    /\ last.body = "<html>"
    /\ Raised("Response")
    /\ last.data.kind = "raw"

Pair(arguments, i) == <<arguments[i][1], arguments[i][2]>>

InDict(d, pair) == \E j \in 1..Len(d) : d[j] = pair

LastNonNull(arguments, name) ==
    LET hits == {i \in 1..Len(arguments) :
                    arguments[i][1] = name /\ arguments[i][2] # NONE}
    IN  arguments[CHOOSE i \in hits : \A j \in hits : j <= i][2]

Probes == {NoHeaders, Headers([n \in {"Accept"} |-> "application/json"])}

ProbeNets == {n \in Nets : n.status \in {0, 200, 500} /\ ~n.released}

ProbeOutcome(obj, headers, net) ==
    LET res == request(obj, "/ws/v1/cluster/info", "GET", headers, "", <<>>,
                       net, 1)
    IN  <<res.outcome, res.path, res.headers, res.sent, res.data>>

\* C8: no call changes the connection configuration of the client, and no
\* call changes what a later call would end with: the outcome of request()
\* on the same arguments and the same answer is the same before and after.
C8_ConfigurationUnchanged ==
    [][\/ self' = self
       \/ /\ Config(self') = Config(self)
          /\ \A h \in Probes, n \in ProbeNets :
                ProbeOutcome(self', h, n) = ProbeOutcome(self, h, n)]_vars

C8_Witness ==
    /\ ncalls >= 2
    /\ last.requested
    /\ self.logger # NONE

\* C9: a facade call with an argument outside the legal set of its
\* enumeration raises IllegalArgumentError before request() is entered.
C9_EveryEnumValidated ==
    IllegalEnum => Raised("IllegalArgumentError") /\ ~last.requested

\* C10: no connection a finished call opened is still open.
C10_ConnectionReleased ==
    \A i \in 1..Len(conns) : conns[i].sock # "open"

====
